---- MODULE Spec2Model ----
(***************************************************************************)
(* Model of asignals.Signal (src/src/asignals/signal.py) running on one    *)
(* asyncio event loop.                                                     *)
(*                                                                         *)
(* A step of the model is what one coroutine does between two suspension   *)
(* points.  connect, disconnect and disconnect_all never suspend once the  *)
(* lock is free, so each is one step.  emit is one step up to the          *)
(* await of gather (lock taken, generator built, lock released,            *)
(* generator drained by the star-unpacking, tasks created) and a second    *)
(* step when the gathering future has completed and the emit coroutine is  *)
(* resumed.  Every task created by emit is a coroutine of its own: it      *)
(* starts, may suspend any number of times, may call the signal again, and *)
(* returns or raises.                                                      *)
(***************************************************************************)
EXTENDS Integers, Sequences, FiniteSets, TLC

\* ---------------------------------------------------------------- bounds
MaxHandle == 2          \* callback handles are 1..MaxHandle
MaxEmits  == 2          \* emit calls made during one behaviour

Handles   == 1..MaxHandle
ArgValues == {"a", "b"} \* the argument tuples passed to emit
OneArg    == {"a"}

VARIABLES
    callbacks,   \* Signal._callbacks: the list of connected handles
    locked,      \* Signal._lock: TRUE while some coroutine holds the lock
    emits,       \* one record per emit call, in call order
    registered,  \* reference: the set of handles a set-registry would hold
    last         \* history: the call made by the latest step, if it made one

vars == <<callbacks, locked, emits, registered, last>>

\* The caller of an operation is a task outside the signal or the task of a
\* callback invocation <<e, i>>: task i of emission e.
External == <<0, 0>>

\* ------------------------------------------------------------- the lock
\* Lock.acquire() returns at once only when the lock is free; a coroutine
\* that finds it taken waits.  "async with" releases on exit.
CanAcquire(l) == ~l

ReleaseKeepsLock(l) == l
Release(l) == FALSE

\* The lock as emit leaves it when it reaches the await of gather: the
\* "async with" block has ended before, so the lock is released.
EmitKeepsLock(l) == l
EmitLeavesLock(l) == Release(l)

\* --------------------------------------------------- list and queries
\* callback in self._callbacks
Contains(cbs, cb) == \E i \in DOMAIN cbs : cbs[i] = cb

\* len(self._callbacks), len(self._callbacks) > 0
Count(cbs) == Len(cbs)
NonEmpty(cbs) == Len(cbs) > 0

\* list.remove: delete the first entry equal to cb
FirstIndex(cbs, cb) == CHOOSE i \in DOMAIN cbs :
                          cbs[i] = cb /\ \A j \in 1..(i - 1) : cbs[j] # cb

RemoveFromThere(cbs, cb) == SubSeq(cbs, 1, FirstIndex(cbs, cb) - 1)
Remove(cbs, cb) ==
    SubSeq(cbs, 1, FirstIndex(cbs, cb) - 1)
        \o SubSeq(cbs, FirstIndex(cbs, cb) + 1, Len(cbs))

\* body of connect under the lock
ConnectListNoCheck(cbs, cb) == Append(cbs, cb)
ConnectListMoveToEnd(cbs, cb) ==
    Append(SelectSeq(cbs, LAMBDA x : x # cb), cb)
ConnectListLostUpdate(cbs, cb) == IF ~Contains(cbs, cb) THEN <<cb>> ELSE cbs
ConnectList(cbs, cb) == IF ~Contains(cbs, cb) THEN Append(cbs, cb) ELSE cbs

\* body of disconnect under the lock
DisconnectList(cbs, cb) == IF Contains(cbs, cb) THEN Remove(cbs, cb) ELSE cbs

\* list.remove raises ValueError when no entry equals cb; disconnect calls
\* it only behind the membership test, so it raises only if both hold.
RemoveRaises(cbs, cb) == ~Contains(cbs, cb)

DisconnectRaisesNoCheck(cbs, cb) == RemoveRaises(cbs, cb)
DisconnectRaises(cbs, cb) == Contains(cbs, cb) /\ RemoveRaises(cbs, cb)

\* body of disconnect_all under the lock
ClearListDropLast(cbs) == SubSeq(cbs, 1, Len(cbs) - 1)
ClearList(cbs) == << >>

\* ------------------------------------------------------------ emissions
\* Task states: "created" (scheduled, body not begun), "running" (body begun,
\* at a suspension point of its own), "awaiting" (suspended in a nested
\* emit), "done", "failed", "cancelled".
Finished(t) == t.st \in {"done", "failed", "cancelled"}

\* one create_task per entry of self._callbacks, called with emit's args
CreateTasksWrongArgs(cbs, args) ==
    [i \in DOMAIN cbs |-> [cb |-> cbs[i], args |-> "a", st |-> "created"]]
CreateTasksReversed(cbs, args) ==
    [i \in DOMAIN cbs |->
        [cb |-> cbs[Len(cbs) + 1 - i], args |-> args, st |-> "created"]]
CreateTasks(cbs, args) ==
    [i \in DOMAIN cbs |-> [cb |-> cbs[i], args |-> args, st |-> "created"]]

IsTask(t) == /\ t[1] \in 1..Len(emits)
             /\ t[2] \in 1..Len(emits[t[1]].tasks)

TaskOf(t) == emits[t[1]].tasks[t[2]]

\* Who can make a call: an outside task at any time, a callback invocation
\* while its body is executing.
CanCall(who) == \/ who = External
                \/ IsTask(who) /\ TaskOf(who).st = "running"

Callers == {External} \cup ((1..MaxEmits) \X (1..MaxHandle))

\* The emits with the state of task t replaced.
SetTaskSt(ems, t, s) ==
    IF t = External THEN ems ELSE [ems EXCEPT ![t[1]].tasks[t[2]].st = s]

\* gather's done-callback of child i, run when that child has finished: the
\* first child that raised (or was cancelled) settles the gathering future
\* with that exception at once; otherwise the future gets its result when
\* the last child has finished.  A settled future is left as it is.
GatherDoneCallbackCancelSiblings(em, i) ==
    IF em.outer # "pending" THEN em
    ELSE IF em.tasks[i].st = "cancelled" THEN [em EXCEPT !.outer = "cancelled"]
    ELSE IF em.tasks[i].st = "failed"
         THEN [em EXCEPT !.outer = "exception", !.exc = i,
                         !.tasks = [j \in DOMAIN em.tasks |->
                            IF em.tasks[j].st \in {"created", "running"}
                            THEN [em.tasks[j] EXCEPT !.st = "cancelled"]
                            ELSE em.tasks[j]]]
    ELSE IF \A j \in DOMAIN em.tasks : Finished(em.tasks[j])
         THEN [em EXCEPT !.outer = "result"]
    ELSE em
GatherDoneCallbackFirstDone(em, i) ==
    IF em.outer # "pending" THEN em
    ELSE IF em.tasks[i].st = "cancelled" THEN [em EXCEPT !.outer = "cancelled"]
    ELSE IF em.tasks[i].st = "failed" THEN [em EXCEPT !.outer = "exception", !.exc = i]
    ELSE [em EXCEPT !.outer = "result"]
GatherDoneCallbackSwallow(em, i) ==
    IF em.outer # "pending" THEN em
    ELSE IF \A j \in DOMAIN em.tasks : Finished(em.tasks[j])
         THEN [em EXCEPT !.outer = "result"]
    ELSE em
GatherDoneCallbackLastToFail(em, i) ==
    IF em.tasks[i].st = "failed" THEN [em EXCEPT !.outer = "exception", !.exc = i]
    ELSE IF em.outer # "pending" THEN em
    ELSE IF em.tasks[i].st = "cancelled" THEN [em EXCEPT !.outer = "cancelled"]
    ELSE IF \A j \in DOMAIN em.tasks : Finished(em.tasks[j])
         THEN [em EXCEPT !.outer = "result"]
    ELSE em
GatherDoneCallback(em, i) ==
    IF em.outer # "pending" THEN em
    ELSE IF em.tasks[i].st = "cancelled" THEN [em EXCEPT !.outer = "cancelled"]
    ELSE IF em.tasks[i].st = "failed" THEN [em EXCEPT !.outer = "exception", !.exc = i]
    ELSE IF \A j \in DOMAIN em.tasks : Finished(em.tasks[j])
         THEN [em EXCEPT !.outer = "result"]
    ELSE em

\* The gathering future as gather returns it: with no child it is already
\* settled with the empty result, otherwise it waits for the children.
GatherStartPending(ts) == "pending"
GatherStart(ts) == IF ts = << >> THEN "result" ELSE "pending"

\* Task t finishes in state s and its done-callback runs.
FinishTask(ems, t, s) ==
    [ems EXCEPT ![t[1]] =
        GatherDoneCallback([ems[t[1]] EXCEPT !.tasks[t[2]].st = s], t[2])]

\* Task.cancel() on the coroutine that awaits the gathering future of
\* emission e reaches, through the future's cancel(), every unfinished child;
\* a child that is itself suspended in a nested emit hands the request on to
\* the children of that emit.  The set of emissions so reached from S:
RECURSIVE CancelSet(_, _)
CancelSet(ems, S) ==
    LET T == S \cup {n \in 1..Len(ems) :
                        /\ ems[n].st = "gathering"
                        /\ ems[n].caller # External
                        /\ ems[n].caller[1] \in S
                        /\ ems[ems[n].caller[1]].outer = "pending"}
    IN  IF T = S THEN S ELSE CancelSet(ems, T)

\* The request as it lands.  A child that has not finished is resumed (or
\* first run) with a CancelledError and ends cancelled; nothing of the
\* program can run in that child before, so request and delivery are one
\* step here.  Its done-callback settles the gathering future, if still
\* pending, with the CancelledError.  Where the gathering future is already
\* settled, the awaiting coroutine itself is marked and ends cancelled when
\* it is resumed.
RequestCancel(ems, e) ==
    LET hit == CancelSet(ems, {e})
        Hit(t) == t.st \in {"created", "running"}
    IN  [n \in 1..Len(ems) |->
            IF n \notin hit THEN ems[n]
            ELSE IF ems[n].outer # "pending" THEN [ems[n] EXCEPT !.creq = TRUE]
            ELSE IF \A i \in DOMAIN ems[n].tasks : ~Hit(ems[n].tasks[i]) THEN ems[n]
            ELSE [ems[n] EXCEPT
                    !.outer = "cancelled",
                    !.tasks = [i \in DOMAIN ems[n].tasks |->
                        IF Hit(ems[n].tasks[i])
                        THEN [ems[n].tasks[i] EXCEPT !.st = "cancelled"]
                        ELSE ems[n].tasks[i]]]]

\* -------------------------------------------------------------- actions
\* The history of calls is kept only in behaviours that begin with it turned
\* on (InitHist); elsewhere last stays as it is.
NoCall == [op |-> "none", who |-> External, cb |-> 0, changed |-> FALSE]
Off    == [op |-> "off", who |-> External, cb |-> 0, changed |-> FALSE]
Label(l) == IF last = Off THEN last ELSE l

Init ==
    /\ callbacks = << >>
    /\ locked = FALSE
    /\ emits = << >>
    /\ registered = {}
    /\ last = Off

InitHist ==
    /\ callbacks = << >>
    /\ locked = FALSE
    /\ emits = << >>
    /\ registered = {}
    /\ last = NoCall

\* await signal.connect(cb)
ConnectLive(who, cb) ==
    /\ CanCall(who)
    /\ CanAcquire(locked)
    /\ callbacks' = ConnectList(callbacks, cb)
    /\ locked' = Release(TRUE)
    /\ registered' = registered \cup {cb}
    /\ last' = Label([op |-> "connect", who |-> who, cb |-> cb,
                      changed |-> callbacks' # callbacks])
    /\ emits' = [n \in 1..Len(emits) |->
                    IF emits[n].st = "gathering" /\ ~Contains(callbacks, cb)
                    THEN [emits[n] EXCEPT !.tasks =
                            Append(@, [cb |-> cb, args |-> emits[n].args,
                                       st |-> "created"])]
                    ELSE emits[n]]
Connect(who, cb) ==
    /\ CanCall(who)
    /\ CanAcquire(locked)
    /\ callbacks' = ConnectList(callbacks, cb)
    /\ locked' = Release(TRUE)
    /\ registered' = registered \cup {cb}
    /\ last' = Label([op |-> "connect", who |-> who, cb |-> cb,
                changed |-> callbacks' # callbacks])
    /\ UNCHANGED emits

\* await signal.disconnect(cb); an exception of the body would end a calling
\* callback in failure.
Disconnect(who, cb) ==
    /\ CanCall(who)
    /\ CanAcquire(locked)
    /\ callbacks' = DisconnectList(callbacks, cb)
    /\ locked' = Release(TRUE)
    /\ registered' = registered \ {cb}
    /\ last' = Label([op |-> "disconnect", who |-> who, cb |-> cb,
                changed |-> callbacks' # callbacks])
    /\ emits' = IF who # External /\ DisconnectRaises(callbacks, cb)
                THEN FinishTask(emits, who, "failed")
                ELSE emits

\* await signal.disconnect_all()
DisconnectAll(who) ==
    /\ CanCall(who)
    /\ CanAcquire(locked)
    /\ callbacks' = ClearList(callbacks)
    /\ locked' = Release(TRUE)
    /\ registered' = {}
    /\ last' = Label([op |-> "disconnect_all", who |-> who, cb |-> 0,
                changed |-> callbacks' # callbacks])
    /\ UNCHANGED emits

\* await signal.emit(args), up to the await of gather: the tasks are created
\* from the list as it is now; with no task the gathering future is already
\* settled and emit returns without suspending.
Emit(who, args) ==
    /\ CanCall(who)
    /\ Len(emits) < MaxEmits
    /\ CanAcquire(locked)
    /\ locked' = EmitLeavesLock(TRUE)
    /\ LET ts == CreateTasks(callbacks, args)
           fut == GatherStart(ts)
           em == [args   |-> args,
                  begin  |-> callbacks,
                  caller |-> who,
                  st     |-> IF fut = "result" THEN "returned" ELSE "gathering",
                  outer  |-> fut,
                  exc    |-> 0,
                  creq   |-> FALSE,
                  tasks  |-> ts]
       IN  emits' = Append(SetTaskSt(emits, who,
                                     IF fut = "result" THEN "running" ELSE "awaiting"),
                           em)
    /\ last' = Label([op |-> "emit", who |-> who, cb |-> 0, changed |-> FALSE])
    /\ UNCHANGED <<callbacks, registered>>

\* emit taken line by line.  A coroutine runs from one suspension point to
\* the next without any other coroutine running in between, and emit has no
\* suspension point from the entry of its "async with" block (the lock is
\* free, so acquire returns at once) to the await of gather.  Busy: some
\* emit is between these two points ("inside" the block, or "left": out of
\* the block with the generator not yet drained).
BusyNever == FALSE
Busy == \E e \in 1..Len(emits) : emits[e].st \in {"inside", "left"}

\* emit enters the "async with" block: it holds the lock and builds the
\* generator over the list; begin is the list as it is under the lock.
EmitEnter(who, args) ==
    /\ ~Busy
    /\ CanCall(who)
    /\ Len(emits) < MaxEmits
    /\ CanAcquire(locked)
    /\ locked' = TRUE
    /\ emits' = Append(emits, [args   |-> args,
                               begin  |-> callbacks,
                               caller |-> who,
                               st     |-> "inside",
                               outer  |-> "pending",
                               exc    |-> 0,
                               creq   |-> FALSE,
                               tasks  |-> << >>])
    /\ last' = Label([op |-> "emit", who |-> who, cb |-> 0, changed |-> FALSE])
    /\ UNCHANGED <<callbacks, registered>>

\* emit leaves the block: the lock is released, no task is created yet.
EmitExit(e) ==
    /\ e \in 1..Len(emits)
    /\ emits[e].st = "inside"
    /\ locked' = EmitLeavesLock(locked)
    /\ emits' = [emits EXCEPT ![e].st = "left"]
    /\ last' = Label(NoCall)
    /\ UNCHANGED <<callbacks, registered>>

\* The star-unpacking of the call of gather drains the generator: one task
\* per entry of the list as it is now; then emit awaits the future.
EmitDrain(e) ==
    /\ e \in 1..Len(emits)
    /\ emits[e].st = "left"
    /\ LET ts == CreateTasks(callbacks, emits[e].args)
           fut == GatherStart(ts)
           who == emits[e].caller
       IN  emits' = [SetTaskSt(emits, who,
                               IF fut = "result" THEN "running" ELSE "awaiting")
                        EXCEPT ![e].tasks = ts,
                               ![e].outer = fut,
                               ![e].st = IF fut = "result" THEN "returned"
                                         ELSE "gathering"]
    /\ last' = Label(NoCall)
    /\ UNCHANGED <<callbacks, locked, registered>>

\* The event loop runs the first step of task i of emission e.  The loop's
\* ready queue is first-in first-out, so the tasks of one emission begin in
\* the order of their creation.
TaskStart(e, i) ==
    /\ IsTask(<<e, i>>)
    /\ emits[e].tasks[i].st = "created"
    /\ \A j \in 1..(i - 1) : emits[e].tasks[j].st # "created"
    /\ emits' = SetTaskSt(emits, <<e, i>>, "running")
    /\ last' = Label(NoCall)
    /\ UNCHANGED <<callbacks, locked, registered>>

\* The callback body returns.
TaskReturn(e, i) ==
    /\ IsTask(<<e, i>>)
    /\ emits[e].tasks[i].st = "running"
    /\ emits' = FinishTask(emits, <<e, i>>, "done")
    /\ last' = Label(NoCall)
    /\ UNCHANGED <<callbacks, locked, registered>>

\* The callback body raises.
TaskFailAutoDisconnect(e, i) ==
    /\ IsTask(<<e, i>>)
    /\ emits[e].tasks[i].st = "running"
    /\ emits' = FinishTask(emits, <<e, i>>, "failed")
    /\ last' = Label(NoCall)
    /\ callbacks' = DisconnectList(callbacks, emits[e].tasks[i].cb)
    /\ UNCHANGED <<locked, registered>>
TaskFail(e, i) ==
    /\ IsTask(<<e, i>>)
    /\ emits[e].tasks[i].st = "running"
    /\ emits' = FinishTask(emits, <<e, i>>, "failed")
    /\ last' = Label(NoCall)
    /\ UNCHANGED <<callbacks, locked, registered>>

\* The outcome of emit once its gathering future is settled.
EmitOutcome(em) ==
    IF em.creq \/ em.outer = "cancelled" THEN "cancelled"
    ELSE IF em.outer = "exception" THEN "raised"
    ELSE "returned"

\* How a callback that awaited a nested emit goes on: after a normal return
\* its body continues; an exception it either handles (and continues) or
\* lets through (and fails); a CancelledError ends it.
CallerAfter(out) ==
    IF out = "returned" THEN {"running"}
    ELSE IF out = "raised" THEN {"running", "failed"}
    ELSE {"cancelled"}

\* The emit coroutine is resumed with the outcome of the gathering future and
\* ends.
EmitResume(e) ==
    /\ e \in 1..Len(emits)
    /\ emits[e].st = "gathering"
    /\ emits[e].outer # "pending"
    /\ LET out == EmitOutcome(emits[e])
           ems == [emits EXCEPT ![e].st = out]
           who == emits[e].caller
       IN  IF who = External
           THEN emits' = ems
           ELSE \E s \in CallerAfter(out) :
                   emits' = IF s = "running" THEN SetTaskSt(ems, who, s)
                            ELSE FinishTask(ems, who, s)
    /\ last' = Label(NoCall)
    /\ UNCHANGED <<callbacks, locked, registered>>

\* The host cancels the outside task that is suspended in emit.
CancelEmit(e) ==
    /\ e \in 1..Len(emits)
    /\ emits[e].st = "gathering"
    /\ emits[e].caller = External
    /\ emits' = RequestCancel(emits, e)
    /\ emits' # emits
    /\ last' = Label([op |-> "cancel", who |-> External, cb |-> 0, changed |-> FALSE])
    /\ UNCHANGED <<callbacks, locked, registered>>

\* Every step but the ones of emit up to its await.
Other ==
    \/ \E who \in Callers, cb \in Handles : Connect(who, cb)
    \/ \E who \in Callers, cb \in Handles : Disconnect(who, cb)
    \/ \E who \in Callers : DisconnectAll(who)
    \/ \E e \in 1..MaxEmits, i \in 1..MaxHandle : TaskStart(e, i)
    \/ \E e \in 1..MaxEmits, i \in 1..MaxHandle : TaskReturn(e, i)
    \/ \E e \in 1..MaxEmits, i \in 1..MaxHandle : TaskFail(e, i)
    \/ \E e \in 1..MaxEmits : EmitResume(e)

NextOver(A) ==
    \/ Other
    \/ \E who \in Callers, args \in A : Emit(who, args)

\* The signal, its callers and its callbacks; nobody cancels a task.
Next == NextOver(ArgValues)
Spec == Init /\ [][Next]_vars

\* The same with one argument value and the history of calls recorded.
NextOne == NextOver(OneArg)
HistSpec == InitHist /\ [][NextOne]_vars

\* The same with a host that may cancel an outside task suspended in emit.
NextCancel == NextOne \/ \E e \in 1..MaxEmits : CancelEmit(e)
CancelSpec == Init /\ [][NextCancel]_vars

\* The same with emit taken line by line: while an emit is between two of
\* its lines no other coroutine runs.
NextStep ==
    \/ ~Busy /\ Other
    \/ \E who \in Callers, args \in OneArg : EmitEnter(who, args)
    \/ \E e \in 1..MaxEmits : EmitExit(e)
    \/ \E e \in 1..MaxEmits : EmitDrain(e)
StepSpec == Init /\ [][NextStep]_vars

\* Every task that can take a step is eventually run by the event loop, every
\* callback body eventually ends, and a coroutine whose awaited future is
\* settled is eventually resumed.
Fairness ==
    /\ \A e \in 1..MaxEmits, i \in 1..MaxHandle :
          /\ WF_vars(TaskStart(e, i))
          /\ WF_vars(TaskReturn(e, i) \/ TaskFail(e, i))
    /\ \A e \in 1..MaxEmits : WF_vars(EmitResume(e))
FairSpec == Init /\ [][NextOne]_vars /\ Fairness

\* ---------------------------------------------------------------- claims
Emissions == 1..Len(emits)

\* The handles of the tasks of an emission, in the order of their creation.
TaskHandles(em) == [i \in DOMAIN em.tasks |-> em.tasks[i].cb]

\* How many tasks of the emission call handle h with the emission's arguments.
InvokedWith(em, h) ==
    Cardinality({i \in DOMAIN em.tasks :
                    em.tasks[i].cb = h /\ em.tasks[i].args = em.args})

\* C1: every emission calls each handle that was in the list when it began
\* exactly once, with the argument values given to emit, and calls no other
\* handle and passes no other arguments.
C1_EmitInvokesRegistryOnce ==
    \A e \in Emissions :
        /\ \A h \in Handles :
              InvokedWith(emits[e], h) = IF Contains(emits[e].begin, h) THEN 1 ELSE 0
        /\ \A i \in DOMAIN emits[e].tasks :
              /\ emits[e].tasks[i].args = emits[e].args
              /\ Contains(emits[e].begin, emits[e].tasks[i].cb)

C1_Witness ==
    \E e \in Emissions :
        /\ emits[e].args = "b"
        /\ Len(emits[e].begin) = 2
        /\ Len(emits[e].tasks) = 2
        /\ \A i \in DOMAIN emits[e].tasks : emits[e].tasks[i].st = "done"
        /\ emits[e].st = "returned"

\* C2: emit never gives its caller a failure while an invocation of the same
\* emission is still unfinished.
C2_FailureOnlyAfterAllFinished ==
    \A e \in Emissions :
        emits[e].st = "raised" =>
            \A i \in DOMAIN emits[e].tasks : Finished(emits[e].tasks[i])

\* Task i of emission e is cancelled by this step.
BecomesCancelled(e, i) ==
    /\ emits[e].tasks[i].st # "cancelled"
    /\ emits'[e].tasks[i].st = "cancelled"

\* C3: an invocation is never cancelled by the failure of another one: a task
\* becomes cancelled only in a step in which the host cancels the emit caller
\* or a nested emit it awaits ends cancelled, never in a step in which a
\* callback fails.
C3_SiblingsNotCancelledByFailure ==
    [][\A e \in Emissions : \A i \in DOMAIN emits[e].tasks :
          BecomesCancelled(e, i) =>
              \/ \E c \in Emissions : CancelEmit(c)
              \/ \E n \in Emissions :
                    EmitResume(n) /\ EmitOutcome(emits[n]) = "cancelled"]_vars

C3_Witness ==
    \E e \in Emissions :
        /\ emits[e].st = "raised"
        /\ Len(emits[e].tasks) = 2
        /\ emits[e].tasks[1].st = "failed"
        /\ emits[e].tasks[2].st = "done"

\* C4: emit ends in failure exactly when an invocation it scheduled failed,
\* the failure it gives is that of one of its failed invocations, and with no
\* failed invocation it ends with the plain result of the gathering future.
C4_FailureNeverSwallowed ==
    \A e \in Emissions :
        /\ emits[e].st = "raised" =>
              /\ emits[e].outer = "exception"
              /\ emits[e].exc \in DOMAIN emits[e].tasks
              /\ emits[e].tasks[emits[e].exc].st = "failed"
        /\ emits[e].st = "returned" =>
              /\ emits[e].outer = "result"
              /\ \A i \in DOMAIN emits[e].tasks : emits[e].tasks[i].st # "failed"
        /\ (emits[e].st # "gathering"
              /\ \E i \in DOMAIN emits[e].tasks : emits[e].tasks[i].st = "failed")
           => emits[e].st = "raised"

C4_Witness ==
    \E e \in Emissions :
        /\ emits[e].st = "raised"
        /\ emits[e].exc = 2
        /\ emits[e].tasks[1].st = "done"
        /\ emits[e].tasks[2].st = "failed"

\* C5: while no invocation of an emission has failed and one of them has not
\* completed, emit has not returned.
C5_NoReturnBeforeAllComplete ==
    \A e \in Emissions :
        (/\ \A i \in DOMAIN emits[e].tasks : emits[e].tasks[i].st # "failed"
         /\ \E i \in DOMAIN emits[e].tasks : emits[e].tasks[i].st # "done")
        => emits[e].st = "gathering"

C5_Witness ==
    \E e \in Emissions :
        /\ emits[e].st = "returned"
        /\ Len(emits[e].tasks) = 2
        /\ emits[e].caller = External
        /\ \E n \in Emissions : emits[n].caller = <<e, 1>> /\ emits[n].st = "returned"

\* C6: the handles an emission invokes are fixed when it creates its tasks:
\* no later step (a connect, disconnect or disconnect_all by one of its own
\* callbacks, by another callback or by an outside task) adds one or takes
\* one away; and an emission that starts takes the list as the calls made so
\* far have left it.
C6_SnapshotIsolation ==
    [][/\ \A e \in Emissions : TaskHandles(emits'[e]) = TaskHandles(emits[e])
       /\ Len(emits') > Len(emits) =>
             TaskHandles(emits'[Len(emits')]) = callbacks]_vars

C6_Witness ==
    /\ Len(emits) = 2
    /\ emits[1].st = "returned"
    /\ Len(emits[1].tasks) = 2
    /\ \A i \in DOMAIN emits[1].tasks : emits[1].tasks[i].st = "done"
    /\ emits[2].caller = <<1, 1>>
    /\ emits[2].begin = <<emits[1].tasks[2].cb>>
    /\ Len(callbacks) = 2

\* Some callback body has begun and not ended.
BodyExecuting ==
    \E e \in Emissions : \E i \in DOMAIN emits[e].tasks :
        emits[e].tasks[i].st \in {"running", "awaiting"}

Gathering(e) == e \in Emissions /\ emits[e].st = "gathering"
Ended(e) == e \in Emissions /\ emits[e].st # "gathering"

\* C7: while a callback body is executing the lock is free, so a connect,
\* disconnect, disconnect_all or emit it makes is not kept waiting; and every
\* emission, nested ones included, eventually ends.
C7_NestedCallsNoDeadlock ==
    /\ [](BodyExecuting => CanAcquire(locked))
    /\ \A e \in 1..MaxEmits : Gathering(e) ~> Ended(e)

C7_Witness ==
    /\ Len(emits) = 2
    /\ emits[2].caller = <<1, 1>>
    /\ Len(emits[2].tasks) = 2
    /\ emits[2].st = "returned"
    /\ emits[1].st = "returned"
    /\ callbacks = << >>

\* C8: the list of callbacks never holds two equal entries.
C8_NoDuplicates ==
    \A i, j \in DOMAIN callbacks : i # j => callbacks[i] # callbacks[j]

C8_Witness ==
    /\ last.op = "connect"
    /\ ~last.changed
    /\ Len(callbacks) = 2
    /\ Len(emits) = 2

\* C9: the list holds exactly the handles whose last call was a connect not
\* followed by a disconnect of it or a disconnect_all; the count is their
\* number and the signal is true exactly when the count is positive.
C9_RegistryIsASet ==
    /\ \A h \in Handles : Contains(callbacks, h) <=> h \in registered
    /\ Count(callbacks) = Cardinality(registered)
    /\ NonEmpty(callbacks) <=> Count(callbacks) > 0
    /\ NonEmpty(callbacks) <=> registered # {}

C9_Witness ==
    /\ last.op = "disconnect"
    /\ last.changed
    /\ last.cb = 1
    /\ callbacks = <<2>>
    /\ registered = {2}

\* C10: a connect of a handle that is already in the list leaves the list
\* as it is, entries and order, and no emission has two tasks for one handle.
C10_ConnectIdempotent ==
    /\ [][\A who \in Callers, h \in Handles :
            (Connect(who, h) /\ Contains(callbacks, h)) => callbacks' = callbacks]_vars
    /\ [](\A e \in Emissions : \A h \in Handles :
            Cardinality({i \in DOMAIN emits[e].tasks : emits[e].tasks[i].cb = h}) <= 1)

C10_Witness ==
    /\ last.op = "connect"
    /\ ~last.changed
    /\ last.cb = 1
    /\ callbacks = <<1, 2>>

\* C11: a disconnect of a handle that is not in the list raises nothing (a
\* calling callback goes on as before) and leaves the list as it is, entries
\* and order; and a handle that is not registered is not contained.
C11_DisconnectAbsentIsNoOp ==
    /\ [][\A who \in Callers, h \in Handles :
            (Disconnect(who, h) /\ ~Contains(callbacks, h)) =>
                /\ ~DisconnectRaises(callbacks, h)
                /\ callbacks' = callbacks
                /\ emits' = emits]_vars
    /\ [](\A h \in Handles : h \notin registered => ~Contains(callbacks, h))

C11_Witness ==
    /\ last.op = "disconnect"
    /\ ~last.changed
    /\ last.who # External
    /\ last.cb = 2
    /\ callbacks = <<1>>
    /\ TaskOf(last.who).st = "running"

\* C12: after a disconnect_all, whatever the list held, the count is 0 and
\* the signal is false; and an emit begun after it and before any connect
\* (the reference set is then still empty) creates no task.
C12_DisconnectAllEmpties ==
    [][/\ \A who \in Callers :
             DisconnectAll(who) =>
                 Count(callbacks') = 0 /\ ~NonEmpty(callbacks')
       /\ \A who \in Callers, args \in ArgValues :
             (Emit(who, args) /\ registered = {}) =>
                 emits'[Len(emits')].tasks = << >>]_vars

C12_Witness ==
    /\ last.op = "disconnect_all"
    /\ last.changed
    /\ last.who = <<1, 2>>
    /\ Len(emits[1].begin) = 2
    /\ Count(callbacks) = 0
    /\ Len(emits) = 1

\* C13: callers that run concurrently are an outside task (External stands
\* for any of them) and the callbacks in flight; their calls interleave in
\* every order.  Whoever makes it and whatever is in flight, a connect of a
\* handle not in the list adds that one entry and loses none, and a
\* disconnect of a handle in the list takes that one entry away and loses no
\* other; so when all MaxHandle handles have been connected the count is
\* MaxHandle, and when all have been disconnected again the list is empty.
C13_ConcurrentCallsLoseNothing ==
    /\ [][\A who \in Callers, h \in Handles :
            /\ (Connect(who, h) /\ ~Contains(callbacks, h)) =>
                  /\ Count(callbacks') = Count(callbacks) + 1
                  /\ \A g \in Handles :
                        Contains(callbacks', g) <=> (g = h \/ Contains(callbacks, g))
            /\ (Disconnect(who, h) /\ Contains(callbacks, h)) =>
                  /\ Count(callbacks') = Count(callbacks) - 1
                  /\ \A g \in Handles :
                        Contains(callbacks', g) <=> (g # h /\ Contains(callbacks, g))]_vars
    /\ [](/\ registered = Handles => Count(callbacks) = MaxHandle
          /\ registered = {} => Count(callbacks) = 0)

C13_Witness ==
    /\ last.op = "connect"
    /\ last.changed
    /\ last.who = <<1, 1>>
    /\ callbacks = <<2, 1>>
    /\ Count(callbacks) = MaxHandle
    /\ emits[1].begin = <<1>>

\* C14: only a connect, a disconnect or a disconnect_all changes the list:
\* the step in which emit creates its tasks, the steps of the callbacks,
\* among them one that fails, the step in which emit returns or raises and a
\* cancellation by the host all leave it as it is, entries and order.
C14_EmitLeavesRegistry ==
    [][/\ callbacks' # callbacks =>
             \E who \in Callers :
                 \/ DisconnectAll(who)
                 \/ \E h \in Handles : Connect(who, h) \/ Disconnect(who, h)
       /\ \A who \in Callers, args \in ArgValues :
             Emit(who, args) => callbacks' = callbacks
       /\ \A e \in 1..MaxEmits :
             (EmitResume(e) \/ \E i \in 1..MaxHandle : TaskFail(e, i)) =>
                 callbacks' = callbacks]_vars

C14_Witness ==
    \E e \in Emissions :
        /\ emits[e].st = "raised"
        /\ emits[e].caller = External
        /\ Len(emits[e].begin) = 2
        /\ emits[e].tasks[1].st = "failed"
        /\ emits[e].tasks[2].st = "done"
        /\ callbacks = emits[e].begin
        /\ Len(emits) = 1

\* C15: an emit that finds the list empty creates no task and has returned,
\* without failure, in the very step in which it began: it never waits; a
\* callback that made the call goes on running; and the list is still empty.
C15_EmitOnEmptyReturns ==
    /\ [](\A e \in Emissions :
            emits[e].begin = << >> =>
                /\ emits[e].tasks = << >>
                /\ emits[e].outer = "result"
                /\ emits[e].st = "returned")
    /\ [][\A who \in Callers, args \in ArgValues :
            (Emit(who, args) /\ callbacks = << >>) =>
                /\ callbacks' = << >>
                /\ who # External => emits'[who[1]].tasks[who[2]].st = "running"]_vars

C15_Witness ==
    /\ Len(emits) = 2
    /\ emits[2].begin = << >>
    /\ emits[2].caller = <<1, 2>>
    /\ emits[2].st = "returned"
    /\ emits[2].args = "b"
    /\ emits[1].tasks[2].st = "running"
    /\ callbacks = << >>

\* C16: the tasks an emit creates are for exactly the list it had under the
\* lock, in that order, although it creates them after it has released the
\* lock; and the list never changes while an emit is between its entry into
\* the locked block and the creation of its tasks: every connect, disconnect
\* and disconnect_all lands before the block is entered or after the tasks
\* exist.
C16_SnapshotOrderedWithMutations ==
    /\ [](\A e \in Emissions :
            emits[e].st \notin {"inside", "left"} =>
                TaskHandles(emits[e]) = emits[e].begin)
    /\ [][callbacks' # callbacks => (~Busy /\ ~Busy')]_vars

C16_Witness ==
    /\ Len(emits) = 2
    /\ emits[1].begin = <<1, 2>>
    /\ emits[1].st = "gathering"
    /\ emits[1].tasks[2].st = "running"
    /\ emits[2].caller = <<1, 1>>
    /\ emits[2].st = "left"
    /\ emits[2].begin = <<2>>
    /\ callbacks = <<2>>
    /\ ~locked

\* The lock is held by an emit inside its locked block, by nothing else.
Holder(e) == e \in Emissions /\ emits[e].st = "inside"

\* C17: an emission of which a callback body is executing or suspended does
\* not hold the lock; when the lock is held, it is by an emit that is inside
\* its locked block and has created no task; and in every state in which the
\* coroutines are all at a suspension point (none is between two lines of
\* emit; connect, disconnect and disconnect_all are one step each) the lock
\* is free.
C17_LockNeverHeldAtSuspension ==
    /\ \A e \in Emissions :
          (\E i \in DOMAIN emits[e].tasks :
              emits[e].tasks[i].st \in {"running", "awaiting"}) => ~Holder(e)
    /\ locked => \E e \in Emissions : Holder(e) /\ emits[e].tasks = << >>
    /\ ~Busy => ~locked

C17_Witness ==
    /\ locked
    /\ Len(emits) = 2
    /\ Holder(2)
    /\ emits[2].caller = <<1, 1>>
    /\ Len(emits[1].tasks) = 2
    /\ emits[1].tasks[2].st = "running"
    /\ Len(callbacks) = 1

\* Task i of emission e fails in this step.
BecomesFailed(e, i) ==
    /\ emits[e].tasks[i].st # "failed"
    /\ emits'[e].tasks[i].st = "failed"

\* C18: the exception the gathering future of an emission holds is that of
\* the invocation that failed first in time: the step in which an invocation
\* fails sets it if no invocation of the emission had failed before and
\* leaves it otherwise, whatever the positions of the two in the list; and
\* an emit that raises, raises that exception.
C18_FirstFailureInTimeSurfaces ==
    /\ [][\A e \in Emissions : \A i \in DOMAIN emits[e].tasks :
            BecomesFailed(e, i) =>
                emits'[e].exc =
                    IF \A j \in DOMAIN emits[e].tasks : emits[e].tasks[j].st # "failed"
                    THEN i ELSE emits[e].exc]_vars
    /\ [](\A e \in Emissions :
            emits[e].st = "raised" =>
                /\ emits[e].exc \in DOMAIN emits[e].tasks
                /\ emits[e].tasks[emits[e].exc].st = "failed")

C18_Witness ==
    \E e \in Emissions :
        /\ emits[e].st = "raised"
        /\ Len(emits[e].tasks) = 2
        /\ emits[e].tasks[1].st = "failed"
        /\ emits[e].tasks[2].st = "failed"
        /\ emits[e].exc = 2

\* C19: a connect of a handle not in the list puts it at the end and a
\* disconnect takes its handle out and keeps the others in their order; the
\* tasks of an emission are created in the order of the list it read, and
\* no task begins before the ones created before it have begun.  (In which
\* order they end is free: see the witness, where the second has ended and
\* the first has not.)
C19_InsertionOrderIsSchedulingOrder ==
    /\ [][\A who \in Callers, h \in Handles :
            /\ (Connect(who, h) /\ ~Contains(callbacks, h)) =>
                  callbacks' = Append(callbacks, h)
            /\ Disconnect(who, h) =>
                  callbacks' = SelectSeq(callbacks, LAMBDA x : x # h)]_vars
    /\ [](\A e \in Emissions :
            /\ TaskHandles(emits[e]) = emits[e].begin
            /\ \A i, j \in DOMAIN emits[e].tasks :
                  (i < j /\ emits[e].tasks[j].st # "created") =>
                      emits[e].tasks[i].st # "created")

C19_Witness ==
    \E e \in Emissions :
        /\ emits[e].begin = <<2, 1>>
        /\ TaskHandles(emits[e]) = <<2, 1>>
        /\ emits[e].tasks[1].st = "running"
        /\ emits[e].tasks[2].st = "done"
        /\ callbacks = <<1, 2>>

\* C20: once the outside task that awaited an emit has ended cancelled, no
\* invocation of that emission is left that has still to begin or is still
\* running its body.
C20_CancelLeavesNoOrphan ==
    \A e \in Emissions :
        (emits[e].caller = External /\ emits[e].st = "cancelled") =>
            \A i \in DOMAIN emits[e].tasks :
                emits[e].tasks[i].st \notin {"created", "running"}

====
